---- MODULE Spec2Model ----
(***************************************************************************)
(* fp-ts-node: the path module (IOEither wrappers over node's `path`) and  *)
(* the fs/promises module (TaskEither wrappers over node's `fs/promises`). *)
(* Every exported function builds a deferred computation with tryCatch:    *)
(* running it calls the node primitive once and turns the primitive's      *)
(* return or raise into an Either.  The repository holds the fs module in  *)
(* several variants that differ in which operations echo an argument.      *)
(***************************************************************************)
EXTENDS Integers, Sequences, FiniteSets, TLC

VARIABLES
    version,   \* the variant of the fs module that is loaded
    granted,   \* environment: the permission bits the file system grants
    task,      \* the deferred computation the caller holds, or NoTask
    runs,      \* the executions of that computation, in the order started
    calls,     \* the log of calls of node primitives
    cwd,       \* environment: process.cwd(), the working directory
    handles,   \* environment: the FileHandles made so far and those open
    dirs       \* environment: the directories that exist

env == <<cwd, handles, dirs>>

vars == <<version, granted, task, runs, calls, cwd, handles, dirs>>

-----------------------------------------------------------------------------
(* Bounds of the model *)

\* how many times the caller runs the computation it holds
MaxRuns == 2

\* how many FileHandles the open primitive makes
MaxHandles == 2

\* the longest path string passed to normalize, parse and isAbsolute
MaxLen == 3

\* the longest path string passed as a segment to join, resolve and relative
MaxArgLen == 2

-----------------------------------------------------------------------------
(* Values *)

\* path-like values a caller passes
Paths == {"a", "b"}

\* a FileHandle the caller obtained before and passes instead of a path
FileHandle == "fh"

\* what a primitive declared Promise<void> resolves with
Undefined == "undefined"

\* results of the value-returning primitives (Stats, Dir, Buffer, string ...)
Values == {"v1", "v2"}

\* access modes: F_OK, R_OK, W_OK, R_OK | W_OK, and the bits each requests
AccessModes == {"F", "R", "W", "RW"}

ModeBits(m) ==
    CASE m = "F" -> {}
      [] m = "R" -> {"R"}
      [] m = "W" -> {"W"}
      [] m = "RW" -> {"R", "W"}

\* values a primitive can raise: an Error with a code (a SystemError or a
\* node TypeError), a plain Error without code, a thrown string, and a
\* thrown object that has a code field but is no Error
Raised ==
    { [ref |-> "e1", isError |-> TRUE,  code |-> "ENOENT", message |-> "no such file"],
      [ref |-> "e2", isError |-> TRUE,  code |-> "",       message |-> "boom"],
      [ref |-> "x1", isError |-> FALSE, code |-> "",       message |-> "thrown string"],
      [ref |-> "x2", isError |-> FALSE, code |-> "EPERM",  message |-> "thrown object"] }

\* the Error the access primitive rejects with when a requested bit is unmet
PermissionDenied ==
    [ref |-> "e3", isError |-> TRUE, code |-> "EACCES", message |-> "permission denied"]

\* Error(defaultMessage): a fresh Error object
GenericError(defaultMessage) ==
    [ref |-> "new", isError |-> TRUE, code |-> "", message |-> defaultMessage]

\* fp-ts Either
Right(a) == [tag |-> "right", value |-> a]

Left(e) == [tag |-> "left", error |-> e]

NoTask == [module |-> "none", op |-> "none", args |-> <<>>]

-----------------------------------------------------------------------------
(* The exported operations *)

FsVersions == {"part_002", "part_003", "part_004", "fs_promises", "path_ts"}

\* the variants at a known path: src/fs/promises.ts and the fs part of src/path.ts
NamedVersions == {"fs_promises", "path_ts"}

PathOps ==
    {"basename", "dirname", "extname", "format", "isAbsolute", "join",
     "normalize", "parse", "relative", "resolve"}

FsOps ==
    {"access", "appendFile", "chmod", "chown", "copyFile", "cp", "lchown",
     "lutimes", "link", "lstat", "mkdir", "mkdtemp", "open", "opendir",
     "readdir", "readFile", "readLink", "realpath", "rename", "rmdir", "rm",
     "stat", "symlink", "truncate", "unlink", "utimes", "writeFile"}

\* the parameters of each exported function, by kind: P a path, F a path or a
\* FileHandle, A an access mode, R the options of mkdir, X any other argument
Params(op) ==
    CASE op \in {"dirname", "extname", "isAbsolute", "normalize", "parse"} -> <<"P">>
      [] op = "basename" -> <<"P", "X">>
      [] op = "format" -> <<"X">>
      [] op \in {"join", "relative", "resolve"} -> <<"P", "P">>
      [] op = "access" -> <<"P", "A">>
      [] op \in {"appendFile", "writeFile"} -> <<"F", "X", "X">>
      [] op = "readFile" -> <<"F", "X">>
      [] op \in {"chmod", "lstat", "mkdtemp", "opendir", "readdir", "readLink",
                 "realpath", "rmdir", "rm", "stat", "truncate"} -> <<"P", "X">>
      [] op \in {"chown", "lchown", "lutimes", "utimes", "open"} -> <<"P", "X", "X">>
      [] op \in {"copyFile", "cp", "symlink"} -> <<"P", "P", "X">>
      [] op \in {"link", "rename"} -> <<"P", "P">>
      [] op = "mkdir" -> <<"P", "R">>
      [] op = "unlink" -> <<"P">>

\* the arguments a caller can pass for a parameter of kind k at position i
ArgDomain(k, i) ==
    CASE k = "P" -> Paths
      [] k = "F" -> Paths \cup {FileHandle}
      [] k = "A" -> AccessModes
      [] k = "R" -> {"recursive", "plain"}
      [] k = "X" -> IF i = 2 THEN {"x2"} ELSE IF i = 3 THEN {"x3"} ELSE {"x1"}

ArgTuples(op) ==
    LET ps == Params(op)
    IN  { t \in [1..Len(ps) -> Paths \cup {FileHandle} \cup AccessModes
                                \cup {"recursive", "plain", "x1", "x2", "x3"}] :
            \A i \in 1..Len(ps) : t[i] \in ArgDomain(ps[i], i) }

\* a path module whose extname calls path.basename and whose basename calls
\* path.extname
PrimitiveSwapped(module, op) ==
    IF module = "path"
    THEN IF op = "extname" THEN <<"path", "basename">>
         ELSE IF op = "basename" THEN <<"path", "extname">>
         ELSE <<"path", op>>
    ELSE IF op = "readLink" THEN <<"fsPromises", "readlink">>
    ELSE <<"fsPromises", op>>

\* a path module whose normalize calls path.resolve
PrimitiveMixedUp(module, op) ==
    IF module = "path"
    THEN IF op = "normalize" THEN <<"path", "resolve">> ELSE <<"path", op>>
    ELSE IF op = "readLink" THEN <<"fsPromises", "readlink">>
    ELSE <<"fsPromises", op>>

\* the node primitive each exported function calls
Primitive(module, op) ==
    IF module = "path" THEN <<"path", op>>
    ELSE IF op = "readLink" THEN <<"fsPromises", "readlink">>
    ELSE <<"fsPromises", op>>

\* the message of the Error a wrapper substitutes for a raised value that is
\* no Error
PathDefaultMessage(op) ==
    CASE op = "basename" -> "Unexpected error getting basename"
      [] op = "dirname" -> "Unexpected error getting dirname"
      [] op = "extname" -> "Unexpected error getting extname"
      [] op = "format" -> "Unexpected error formatting path object"
      [] op = "isAbsolute" -> "Unexpected error checking for absolute path"
      [] op = "join" -> "Unexpected error joining path segments"
      [] op = "normalize" -> "Unexpected error normalizing path"
      [] op = "parse" -> "Unexpected error parsing path"
      [] op = "relative" -> "Unexpected error solving the relative path"
      [] op = "resolve" -> "Unexpected error resolving path segments"

\* a module whose default messages name the variant of the module
FsDefaultMessageOfVariant(ver, op) == "Unexpected error in " \o ver

\* a module in which every wrapper names its operation in the default message
FsDefaultMessageNamed(ver, op) == "Unexpected error during " \o op

FsDefaultMessage(ver, op) ==
    CASE op = "access" -> "Unexpected error while accessing path"
      [] op = "appendFile" -> "Unexpected error appending file"
      [] op = "chmod" -> "Unexpected error while performing chmod"
      [] op = "chown" -> "Unexpected error while performing chown"
      [] op = "copyFile" -> IF ver \in {"part_002", "part_003"}
                            THEN "Unexpected error copying file"
                            ELSE "Unexpected error during copyFile"
      [] op = "cp" -> "Unexpected error during cp"
      [] op = "lchown" -> "Unexpected error duriong lchown"
      [] op = "lutimes" -> "Unexpected error during lutimes"
      [] op = "link" -> "Unexpected error during link"
      [] OTHER -> ""

DefaultMessage(ver, module, op) ==
    IF module = "path" THEN PathDefaultMessage(op) ELSE FsDefaultMessage(ver, op)

\* the operations whose wrapper chains `.then(() => arg)` on the primitive's
\* promise, per variant of the fs module
EchoingOps(ver) ==
    CASE ver = "part_002" -> {}
      [] ver = "part_003" -> {"access", "appendFile", "chmod"}
      [] ver = "part_004" ->
            {"access", "appendFile", "chmod", "chown", "copyFile", "cp",
             "lchown", "lutimes", "link"}
      [] ver = "fs_promises" ->
            {"access", "appendFile", "chmod", "chown", "copyFile", "cp",
             "lchown", "lutimes", "link", "mkdir"}
      [] ver = "path_ts" ->
            {"access", "appendFile", "chmod", "chown", "copyFile", "cp",
             "lchown", "lutimes", "link", "mkdir", "rename", "symlink",
             "truncate", "utimes", "writeFile"}

\* a wrapper that yields its first argument, the source of a copy or link
EchoPositionFirst(op) == 1

\* the position of the argument such a wrapper yields: dest of copyFile and
\* cp, newPath of link and rename, path of symlink, the first argument of
\* the others
EchoPosition(op) ==
    IF op \in {"copyFile", "cp", "link", "rename", "symlink"} THEN 2 ELSE 1

\* what the primitive can resolve with (fs) or return (path)
PrimitiveResults(module, op) ==
    IF module = "path" THEN Values
    ELSE IF op \in {"lstat", "mkdtemp", "open", "opendir", "readdir", "readFile",
                    "readLink", "realpath", "stat"} THEN Values
    ELSE IF op = "mkdir" THEN {Undefined} \cup Paths
    ELSE {Undefined}

-----------------------------------------------------------------------------
(* The wrappers *)

\* a toError that builds a new Error around the one it caught
toErrorRewrap(error, defaultMessage) ==
    IF error.isError
    THEN [ref |-> "new", isError |-> TRUE, code |-> error.code, message |-> error.message]
    ELSE GenericError(defaultMessage)

\* a toError that reports what was raised instead of the default message
toErrorOfReason(error, defaultMessage) ==
    IF error.isError THEN error ELSE GenericError(error.message)

\* toError: an Error is kept as it is, anything else is replaced
toError(error, defaultMessage) ==
    IF error.isError THEN error ELSE GenericError(defaultMessage)

\* a wrapper that never chains `.then(() => arg)`
PayloadNoEcho(ver, t, v) == v

\* a wrapper that echoes its first argument whenever the primitive resolves
\* with nothing
PayloadEchoVoid(ver, t, v) ==
    IF t.module = "fs" /\ v = Undefined THEN t.args[1] ELSE v

\* a wrapper that chains `.then(() => arg)` in every operation
PayloadEchoAlways(ver, t, v) ==
    IF t.module = "fs" THEN t.args[EchoPosition(t.op)] ELSE v

\* the value the promise given to tryCatch resolves with
Payload(ver, t, v) ==
    IF t.module = "fs" /\ t.op \in EchoingOps(ver)
    THEN t.args[EchoPosition(t.op)]
    ELSE v

\* a tryCatch that swallows what the primitive raised
OutcomeSwallow(ver, t, settle) ==
    IF settle.kind = "resolved"
    THEN Right(Payload(ver, t, settle.value))
    ELSE Right(Undefined)

\* tryCatch: right on return or resolve, left(onRejected(reason)) on raise
Outcome(ver, t, settle) ==
    IF settle.kind = "resolved"
    THEN Right(Payload(ver, t, settle.value))
    ELSE Left(toError(settle.reason, DefaultMessage(ver, t.module, t.op)))

\* a wrapper whose lazy argument calls the primitive twice
InvokePrimitiveTwice(log, t, r) ==
    LET c == [prim |-> Primitive(t.module, t.op), args |-> t.args, run |-> r]
    IN  Append(Append(log, c), c)

\* a wrapper that forgets to pass its last, optional argument on
InvokePrimitiveDropLast(log, t, r) ==
    Append(log, [prim |-> Primitive(t.module, t.op),
                 args |-> IF Len(t.args) > 1 THEN SubSeq(t.args, 1, Len(t.args) - 1)
                                             ELSE t.args,
                 run |-> r])

\* a wrapper that calls the primitive on the first run only and keeps what
\* it got
InvokePrimitiveOnce(log, t, r) ==
    IF log # <<>> THEN log
    ELSE Append(log, [prim |-> Primitive(t.module, t.op), args |-> t.args, run |-> r])

\* a format that passes the root on as dir
InvokePrimitiveRootForDir(log, t, r) ==
    Append(log, [prim |-> Primitive(t.module, t.op),
                 args |-> IF t.op = "format"
                          THEN <<[t.args[1] EXCEPT !.dir = t.args[1].root]>>
                          ELSE t.args,
                 run |-> r])

\* a format that passes the path object on without its base
InvokePrimitiveWithoutBase(log, t, r) ==
    Append(log, [prim |-> Primitive(t.module, t.op),
                 args |-> IF t.op = "format"
                          THEN <<[t.args[1] EXCEPT !.base = <<>>]>>
                          ELSE t.args,
                 run |-> r])

\* a wrapper whose lazy argument calls the primitive without arguments
InvokePrimitiveNoArgs(log, t, r) ==
    Append(log, [prim |-> Primitive(t.module, t.op), args |-> <<>>, run |-> r])

\* a wrapper that closes the FileHandle it was given after using it
InvokePrimitiveAndClose(log, t, r) ==
    LET c == [prim |-> Primitive(t.module, t.op), args |-> t.args, run |-> r]
    IN  IF t.op \in {"readFile", "writeFile", "appendFile"} /\ t.args[1] = FileHandle
        THEN Append(Append(log, c),
                    [prim |-> <<"filehandle", "close">>, args |-> <<t.args[1]>>, run |-> r])
        ELSE Append(log, c)

\* the lazy argument of tryCatch calls the primitive with the arguments the
\* exported function received
InvokePrimitive(log, t, r) ==
    Append(log, [prim |-> Primitive(t.module, t.op), args |-> t.args, run |-> r])

Pending == [kind |-> "pending"]

Resolved(v) == [kind |-> "resolved", value |-> v]

Rejected(f) == [kind |-> "rejected", reason |-> f]

NoOutcome == [tag |-> "none"]

\* an exported function that calls the primitive at once and wraps its
\* promise
CallsOnCreateEager(log, t) == InvokePrimitive(log, t, 0)

\* an exported function only builds the deferred computation: its body is
\* one tryCatch(...) expression, which calls nothing
CallsOnCreate(log, t) == log

\* a wrapper that hands results out in the order the runs were started
DeliverableInOrder(rs, i) ==
    rs[i].pc = "settled" /\ \A j \in 1..(i - 1) : rs[j].pc = "done"

\* the continuation of a run is queued when the promise of its own call
\* has settled, whatever the state of other runs
Deliverable(rs, i) == rs[i].pc = "settled"

\* the process starts in the root directory, holding one FileHandle the
\* caller opened before, and no directory of Paths exists
RootDir == <<"/">>

InitialHandles == [open |-> {FileHandle}, closed |-> {}, made |-> 0]

\* filehandle.close() calls logged after position `from` close their handle
HandlesAfterCalls(h, log, from) ==
    LET closing == { log[k].args[1] : k \in { j \in from + 1 .. Len(log) :
                                               log[j].prim = <<"filehandle", "close">> } }
    IN  [h EXCEPT !.open = @ \ closing]

\* how the primitive of task t can settle in the environment
Settlements(t) ==
    LET ok == { Resolved(v) : v \in PrimitiveResults(t.module, t.op) }
        ko == { Rejected(f) : f \in Raised }
    IN  IF t.op = "access"
        THEN IF ModeBits(t.args[2]) \subseteq ModeBits(granted)
             THEN ok \cup ko
             ELSE {Rejected(PermissionDenied)}
        ELSE ok \cup ko

-----------------------------------------------------------------------------
(* Actions *)

Init ==
    /\ version \in NamedVersions
    /\ granted \in AccessModes
    /\ task = NoTask
    /\ runs = <<>>
    /\ calls = <<>>
    /\ cwd = RootDir
    /\ handles = InitialHandles
    /\ dirs = {}

\* the caller calls an exported function: it returns the deferred computation
Create ==
    /\ task = NoTask
    /\ \E m \in {"path", "fs"} :
         \E op \in (IF m = "path" THEN PathOps ELSE FsOps) :
           \E a \in ArgTuples(op) :
             /\ task' = [module |-> m, op |-> op, args |-> a]
             /\ calls' = CallsOnCreate(calls, [module |-> m, op |-> op, args |-> a])
    /\ UNCHANGED <<version, granted, runs, env>>

\* the caller runs an IOEither: the path primitive is called and returns or
\* throws within the same step
RunIO ==
    /\ task.module = "path"
    /\ Len(runs) < MaxRuns
    /\ \E s \in Settlements(task) :
         runs' = Append(runs, [pc |-> "done", of |-> task, cwd |-> cwd, settle |-> s,
                               out |-> Outcome(version, task, s)])
    /\ calls' = InvokePrimitive(calls, task, Len(runs) + 1)
    /\ UNCHANGED <<version, granted, task, env>>

\* the caller runs a TaskEither: the fs primitive is called and its promise
\* is pending
StartTask ==
    /\ task.module = "fs"
    /\ Len(runs) < MaxRuns
    /\ runs' = Append(runs, [pc |-> "pending", of |-> task, cwd |-> cwd,
                             settle |-> Pending, out |-> NoOutcome])
    /\ calls' = InvokePrimitive(calls, task, Len(runs) + 1)
    /\ handles' = HandlesAfterCalls(handles, calls', Len(calls))
    /\ UNCHANGED <<version, granted, task, cwd, dirs>>

\* node settles the promise of a pending call
Settle(i) ==
    /\ runs[i].pc = "pending"
    /\ \E s \in Settlements(runs[i].of) :
         runs' = [runs EXCEPT ![i].pc = "settled", ![i].settle = s]
    /\ UNCHANGED <<version, granted, task, calls, env>>

\* the continuation of tryCatch runs and the awaiting caller gets the Either
Deliver(i) ==
    /\ Deliverable(runs, i)
    /\ runs' = [runs EXCEPT ![i].pc = "done",
                            ![i].out = Outcome(version, runs[i].of, runs[i].settle)]
    /\ UNCHANGED <<version, granted, task, calls, env>>

\* the caller drops the computation once every run of it has ended
Drop ==
    /\ task # NoTask
    /\ \A i \in 1..Len(runs) : runs[i].pc = "done"
    /\ task' = NoTask
    /\ runs' = <<>>
    /\ calls' = <<>>
    /\ UNCHANGED <<version, granted, env>>

Next ==
    \/ Create
    \/ RunIO
    \/ StartTask
    \/ \E i \in 1..Len(runs) : Settle(i)
    \/ \E i \in 1..Len(runs) : Deliver(i)
    \/ Drop

Spec == Init /\ [][Next]_vars

-----------------------------------------------------------------------------
(* Overlapping computations: the caller calls exported functions and runs   *)
(* what they return while earlier runs are still pending                    *)

\* rename and writeFile on the same and on different paths
ConcTasks ==
    { [module |-> "fs", op |-> "rename", args |-> <<p, q>>] :
        <<p, q>> \in {<<"a", "b">>, <<"b", "a">>} }
    \cup { [module |-> "fs", op |-> "writeFile", args |-> <<p, "x2", "x3">>] : p \in Paths }

InitConc ==
    /\ version \in NamedVersions
    /\ granted = "RW"
    /\ task = NoTask
    /\ runs = <<>>
    /\ calls = <<>>
    /\ cwd = RootDir
    /\ handles = InitialHandles
    /\ dirs = {}

\* the caller calls another exported function, whatever is pending
CreateConc ==
    /\ \E t \in ConcTasks \ {task} :
         /\ task' = t
         /\ calls' = CallsOnCreate(calls, t)
    /\ UNCHANGED <<version, granted, runs, env>>

NextConc ==
    \/ CreateConc
    \/ StartTask
    \/ \E i \in 1..Len(runs) : Settle(i)
    \/ \E i \in 1..Len(runs) : Deliver(i)
    \/ Drop

SpecConc == InitConc /\ [][NextConc]_vars

-----------------------------------------------------------------------------
(* The variants of the fs module side by side: the same call made of the    *)
(* variant that echoes no path and of another variant, with the primitive   *)
(* doing the same for both                                                  *)

NonEchoing == "part_002"

\* odd runs are runs of the non-echoing variant, even runs of the other
VariantOf(i) == IF i % 2 = 1 THEN NonEchoing ELSE version

InitVariants ==
    /\ version \in FsVersions \ {NonEchoing}
    /\ granted = "R"
    /\ task = NoTask
    /\ runs = <<>>
    /\ calls = <<>>
    /\ cwd = RootDir
    /\ handles = InitialHandles
    /\ dirs = {}

CreateInBoth ==
    /\ task = NoTask
    /\ \E op \in FsOps :
         \E a \in ArgTuples(op) :
           /\ task' = [module |-> "fs", op |-> op, args |-> a]
           /\ calls' = CallsOnCreate(CallsOnCreate(calls, [module |-> "fs", op |-> op, args |-> a]),
                                     [module |-> "fs", op |-> op, args |-> a])
    /\ UNCHANGED <<version, granted, runs, env>>

StartBoth ==
    /\ task.module = "fs"
    /\ Len(runs) + 2 <= MaxRuns
    /\ LET r == [pc |-> "pending", of |-> task, cwd |-> cwd, settle |-> Pending,
                 out |-> NoOutcome]
       IN  runs' = Append(Append(runs, r), r)
    /\ calls' = InvokePrimitive(InvokePrimitive(calls, task, Len(runs) + 1),
                                task, Len(runs) + 2)
    /\ handles' = HandlesAfterCalls(handles, calls', Len(calls))
    /\ UNCHANGED <<version, granted, task, cwd, dirs>>

\* the primitive does for the two calls the same
SettleBoth(i) ==
    /\ i % 2 = 1
    /\ i + 1 <= Len(runs)
    /\ runs[i].pc = "pending"
    /\ runs[i + 1].pc = "pending"
    /\ \E s \in Settlements(runs[i].of) :
         runs' = [runs EXCEPT ![i].pc = "settled", ![i].settle = s,
                              ![i + 1].pc = "settled", ![i + 1].settle = s]
    /\ UNCHANGED <<version, granted, task, calls, env>>

DeliverVariant(i) ==
    /\ Deliverable(runs, i)
    /\ runs' = [runs EXCEPT ![i].pc = "done",
                            ![i].out = Outcome(VariantOf(i), runs[i].of, runs[i].settle)]
    /\ UNCHANGED <<version, granted, task, calls, env>>

NextVariants ==
    \/ CreateInBoth
    \/ StartBoth
    \/ \E i \in 1..Len(runs) : SettleBoth(i)
    \/ \E i \in 1..Len(runs) : DeliverVariant(i)
    \/ Drop

SpecVariants == InitVariants /\ [][NextVariants]_vars

-----------------------------------------------------------------------------
(* Overlapping runs of echoing operations, with the event loop running the  *)
(* continuation of every settled promise                                    *)

\* access, link and lutimes on different paths
EchoTasks ==
    { [module |-> "fs", op |-> "access", args |-> <<"a", "R">>],
      [module |-> "fs", op |-> "link", args |-> <<"a", "b">>],
      [module |-> "fs", op |-> "lutimes", args |-> <<"b", "x2", "x3">>] }

InitEcho ==
    /\ version = "fs_promises"
    /\ granted = "RW"
    /\ task = NoTask
    /\ runs = <<>>
    /\ calls = <<>>
    /\ cwd = RootDir
    /\ handles = InitialHandles
    /\ dirs = {}

CreateEcho ==
    /\ \E t \in EchoTasks \ {task} :
         /\ task' = t
         /\ calls' = CallsOnCreate(calls, t)
    /\ UNCHANGED <<version, granted, runs, env>>

NextEcho ==
    \/ CreateEcho
    \/ StartTask
    \/ \E i \in 1..Len(runs) : Settle(i)
    \/ \E i \in 1..Len(runs) : Deliver(i)
    \/ Drop

\* promise reactions are microtasks: node runs the continuation of a settled
\* promise; nothing obliges a primitive to settle or the caller to go on
SpecEcho ==
    /\ InitEcho
    /\ [][NextEcho]_vars
    /\ \A i \in 1..MaxRuns : WF_vars(i \in 1..Len(runs) /\ Deliver(i))

-----------------------------------------------------------------------------
(* The file system behind open, readFile, writeFile, appendFile and mkdir:  *)
(* FileHandles and directories                                              *)

FsEnvOps == {"open", "readFile", "writeFile", "appendFile", "mkdir"}

\* the n-th FileHandle the open primitive makes
NewHandle(n) == "h" \o ToString(n)

AllHandles == {FileHandle} \cup { NewHandle(n) : n \in 1..handles.made }

\* EBADF: the FileHandle passed is closed; EEXIST: the directory exists
BadHandle ==
    [ref |-> "e4", isError |-> TRUE, code |-> "EBADF", message |-> "bad file descriptor"]

AlreadyExists ==
    [ref |-> "e5", isError |-> TRUE, code |-> "EEXIST", message |-> "file already exists"]

\* a settlement, with the directories before and after the primitive acted
Acted(s, pre, post) ==
    IF s.kind = "resolved"
    THEN [kind |-> "resolved", value |-> s.value, pre |-> pre, post |-> post]
    ELSE [kind |-> "rejected", reason |-> s.reason, pre |-> pre, post |-> post]

\* the module at src/fs/promises.ts, started with or without a directory "a"
InitFs ==
    /\ version = "fs_promises"
    /\ granted = "RW"
    /\ task = NoTask
    /\ runs = <<>>
    /\ calls = <<>>
    /\ cwd = RootDir
    /\ handles = InitialHandles
    /\ dirs \in {{}, {"a"}}

CreateFs ==
    /\ task = NoTask
    /\ \E op \in FsEnvOps :
         \E a \in { x \in ArgTuples(op) : x[1] \in {"a", FileHandle} } :
           /\ task' = [module |-> "fs", op |-> op, args |-> a]
           /\ calls' = CallsOnCreate(calls, [module |-> "fs", op |-> op, args |-> a])
    /\ UNCHANGED <<version, granted, runs, env>>

\* fsPromises.open makes a FileHandle of its own, or fails
SettleOpen(i) ==
    /\ runs[i].pc = "pending"
    /\ runs[i].of.op = "open"
    /\ \/ /\ handles.made < MaxHandles
          /\ LET h == NewHandle(handles.made + 1)
             IN  /\ handles' = [handles EXCEPT !.made = @ + 1, !.open = @ \cup {h}]
                 /\ runs' = [runs EXCEPT ![i].pc = "settled",
                                         ![i].settle = Acted(Resolved(h), dirs, dirs)]
       \/ /\ \E f \in Raised :
               runs' = [runs EXCEPT ![i].pc = "settled",
                                    ![i].settle = Acted(Rejected(f), dirs, dirs)]
          /\ handles' = handles
    /\ UNCHANGED <<version, granted, task, calls, cwd, dirs>>

\* readFile, writeFile and appendFile use the path or the FileHandle they are
\* given and leave the FileHandle as it is
SettleFileOp(i) ==
    /\ runs[i].pc = "pending"
    /\ runs[i].of.op \in {"readFile", "writeFile", "appendFile"}
    /\ LET t == runs[i].of
       IN  \E s \in (IF t.args[1] \in AllHandles \ handles.open
                      THEN {Rejected(BadHandle)}
                      ELSE Settlements(t)) :
             runs' = [runs EXCEPT ![i].pc = "settled", ![i].settle = Acted(s, dirs, dirs)]
    /\ UNCHANGED <<version, granted, task, calls, env>>

\* fsPromises.mkdir: on a directory that exists it rejects only when
\* recursive is false; otherwise it creates the directory (and with recursive
\* resolves with the first directory created), or fails
SettleMkdir(i) ==
    /\ runs[i].pc = "pending"
    /\ runs[i].of.op = "mkdir"
    /\ LET p == runs[i].of.args[1]
           recursive == runs[i].of.args[2] = "recursive"
       IN  IF p \in dirs
           THEN /\ runs' = [runs EXCEPT ![i].pc = "settled",
                                        ![i].settle =
                                            Acted(IF recursive THEN Resolved(Undefined)
                                                               ELSE Rejected(AlreadyExists),
                                                  dirs, dirs)]
                /\ dirs' = dirs
           ELSE \/ /\ dirs' = dirs \cup {p}
                   /\ runs' = [runs EXCEPT ![i].pc = "settled",
                                           ![i].settle =
                                               Acted(Resolved(IF recursive THEN p ELSE Undefined),
                                                     dirs, dirs \cup {p})]
                \/ /\ dirs' = dirs
                   /\ \E f \in Raised :
                        runs' = [runs EXCEPT ![i].pc = "settled",
                                             ![i].settle = Acted(Rejected(f), dirs, dirs)]
    /\ UNCHANGED <<version, granted, task, calls, cwd, handles>>

\* the caller closes a FileHandle it holds
CloseHandle ==
    /\ \E h \in handles.open \ { runs[i].settle.value :
                                    i \in { j \in 1..Len(runs) :
                                              /\ runs[j].pc = "settled"
                                              /\ runs[j].settle.kind = "resolved" } } :
         handles' = [handles EXCEPT !.open = @ \ {h}, !.closed = @ \cup {h}]
    /\ UNCHANGED <<version, granted, task, runs, calls, cwd, dirs>>

NextFs ==
    \/ CreateFs
    \/ StartTask
    \/ \E i \in 1..Len(runs) : SettleOpen(i)
    \/ \E i \in 1..Len(runs) : SettleFileOp(i)
    \/ \E i \in 1..Len(runs) : SettleMkdir(i)
    \/ \E i \in 1..Len(runs) : Deliver(i)
    \/ CloseHandle
    \/ Drop

SpecFs == InitFs /\ [][NextFs]_vars

-----------------------------------------------------------------------------
(* The POSIX path primitives of node, on strings as sequences of characters *)

Chars == {"/", ".", "a"}

Strs(n) == UNION { [1..k -> Chars] : k \in 0..n }

\* a value that is no string
NotAString == <<"null">>

IsString(x) == \A i \in 1..Len(x) : x[i] \in Chars

\* ERR_INVALID_ARG_TYPE, thrown by validateString and validateObject
TypeError ==
    [ref |-> "e6", isError |-> TRUE, code |-> "ERR_INVALID_ARG_TYPE",
     message |-> "The argument must be of type string"]

Dot == <<".">>

DotDot == <<".", ".">>

Slash == <<"/">>

NonEmpty(x) == x # <<>>

FirstSlash(x) ==
    IF \E i \in 1..Len(x) : x[i] = "/"
    THEN CHOOSE i \in 1..Len(x) : x[i] = "/" /\ \A j \in 1..(i - 1) : x[j] # "/"
    ELSE 0

\* String.prototype.split on the separator
RECURSIVE Split(_)
Split(x) ==
    LET k == FirstSlash(x)
    IN  IF k = 0 THEN <<x>>
        ELSE <<SubSeq(x, 1, k - 1)>> \o Split(SubSeq(x, k + 1, Len(x)))

\* Array.prototype.join with the separator
RECURSIVE JoinSegs(_)
JoinSegs(segs) ==
    IF segs = <<>> THEN <<>>
    ELSE IF Len(segs) = 1 THEN segs[1]
    ELSE segs[1] \o Slash \o JoinSegs(Tail(segs))

\* normalizeString, segment by segment: empty and "." segments are dropped,
\* ".." removes the segment before it unless there is none or it is "..",
\* and is then kept only when allowAboveRoot
RECURSIVE NormalizeSegs(_, _, _)
NormalizeSegs(segs, res, allowAboveRoot) ==
    IF segs = <<>> THEN res
    ELSE LET seg == Head(segs)
             rest == Tail(segs)
         IN  IF seg = <<>> \/ seg = Dot
             THEN NormalizeSegs(rest, res, allowAboveRoot)
             ELSE IF seg = DotDot
             THEN IF res # <<>> /\ res[Len(res)] # DotDot
                  THEN NormalizeSegs(rest, SubSeq(res, 1, Len(res) - 1), allowAboveRoot)
                  ELSE IF allowAboveRoot
                  THEN NormalizeSegs(rest, Append(res, seg), allowAboveRoot)
                  ELSE NormalizeSegs(rest, res, allowAboveRoot)
             ELSE NormalizeSegs(rest, Append(res, seg), allowAboveRoot)

normalizeString(x, allowAboveRoot) ==
    JoinSegs(NormalizeSegs(Split(x), <<>>, allowAboveRoot))

path_isAbsolute(x) == Len(x) > 0 /\ x[1] = "/"

path_normalize(x) ==
    IF Len(x) = 0 THEN Dot
    ELSE LET isAbsolute == x[1] = "/"
             trailingSeparator == x[Len(x)] = "/"
             res == normalizeString(x, ~isAbsolute)
         IN  IF Len(res) = 0
             THEN IF isAbsolute THEN Slash
                  ELSE IF trailingSeparator THEN <<".", "/">> ELSE Dot
             ELSE (IF isAbsolute THEN Slash ELSE <<>>)
                     \o res \o (IF trailingSeparator THEN Slash ELSE <<>>)

path_join(xs) ==
    LET joined == JoinSegs(SelectSeq(xs, NonEmpty))
    IN  IF Len(joined) = 0 THEN Dot ELSE path_normalize(joined)

\* the segments of resolve taken from right to left up to the first absolute
\* one, then the working directory
RECURSIVE ResolveFrom(_, _, _)
ResolveFrom(xs, i, wd) ==
    IF i = 0 THEN wd
    ELSE IF Len(xs[i]) = 0 THEN ResolveFrom(xs, i - 1, wd)
    ELSE IF xs[i][1] = "/" THEN xs[i]
    ELSE ResolveFrom(xs, i - 1, wd) \o Slash \o xs[i]

path_resolve(xs, wd) ==
    LET resolvedPath == ResolveFrom(xs, Len(xs), wd)
        resolvedAbsolute == Len(resolvedPath) > 0 /\ resolvedPath[1] = "/"
        res == normalizeString(resolvedPath, ~resolvedAbsolute)
    IN  IF resolvedAbsolute THEN Slash \o res
        ELSE IF Len(res) > 0 THEN res ELSE Dot

CommonLength(x, y) ==
    LET n == IF Len(x) < Len(y) THEN Len(x) ELSE Len(y)
    IN  CHOOSE k \in 0..n :
          /\ \A i \in 1..k : x[i] = y[i]
          /\ k < n => x[k + 1] # y[k + 1]

path_relative(from, to, wd) ==
    IF from = to THEN <<>>
    ELSE LET f == path_resolve(<<from>>, wd)
             t == path_resolve(<<to>>, wd)
         IN  IF f = t THEN <<>>
             ELSE LET fs == SelectSeq(Split(f), NonEmpty)
                      ts == SelectSeq(Split(t), NonEmpty)
                      c == CommonLength(fs, ts)
                  IN  JoinSegs([i \in 1..(Len(fs) - c) |-> DotDot]
                                  \o SubSeq(ts, c + 1, Len(ts)))

NoParts == [root |-> <<>>, dir |-> <<>>, base |-> <<>>, ext |-> <<>>, name |-> <<>>]

LastIndex(x, lo, hi, c) ==
    IF \E i \in lo..hi : x[i] = c
    THEN CHOOSE i \in lo..hi : x[i] = c /\ \A j \in (i + 1)..hi : x[j] # c
    ELSE 0

\* path.parse: end is the last character that is no separator, startPart the
\* position after the last separator before it, startDot the last '.' of the
\* base; positions count from 1, startPart as in the source from 0
path_parse(x) ==
    IF Len(x) = 0 THEN NoParts
    ELSE LET isAbsolute == x[1] = "/"
             start == IF isAbsolute THEN 2 ELSE 1
             end == IF \E i \in start..Len(x) : x[i] # "/"
                    THEN CHOOSE i \in start..Len(x) :
                            x[i] # "/" /\ \A j \in (i + 1)..Len(x) : x[j] = "/"
                    ELSE 0
             startPart == LastIndex(x, start, end, "/")
             first == IF startPart = 0 /\ isAbsolute THEN 2 ELSE startPart + 1
             startDot == LastIndex(x, first, end, ".")
             preDotState == IF startDot = 0 \/ startDot = first THEN 0
                            ELSE IF x[first] = "." THEN 1 ELSE 0 - 1
             noExt == \/ startDot = 0
                      \/ preDotState = 0
                      \/ preDotState = 1 /\ startDot = end /\ startDot = startPart + 2
         IN  [root |-> IF isAbsolute THEN Slash ELSE <<>>,
              dir |-> IF startPart > 0 THEN SubSeq(x, 1, startPart - 1)
                      ELSE IF isAbsolute THEN Slash ELSE <<>>,
              base |-> IF end = 0 THEN <<>> ELSE SubSeq(x, first, end),
              name |-> IF end = 0 THEN <<>>
                       ELSE IF noExt THEN SubSeq(x, first, end)
                       ELSE SubSeq(x, first, startDot - 1),
              ext |-> IF end = 0 \/ noExt THEN <<>> ELSE SubSeq(x, startDot, end)]

path_format(po) ==
    LET dir == IF po.dir # <<>> THEN po.dir ELSE po.root
        base == IF po.base # <<>> THEN po.base ELSE po.name \o po.ext
    IN  IF dir = <<>> THEN base
        ELSE IF dir = po.root THEN dir \o base
        ELSE dir \o Slash \o base

\* the last character that is no separator, 0 if there is none
LastNonSlash(x) ==
    IF \E i \in 1..Len(x) : x[i] # "/"
    THEN CHOOSE i \in 1..Len(x) : x[i] # "/" /\ \A j \in (i + 1)..Len(x) : x[j] = "/"
    ELSE 0

\* path.extname: as path.parse finds ext, but scanning the whole string
path_extname(x) ==
    LET end == LastNonSlash(x)
        startPart == LastIndex(x, 1, end, "/")
        first == startPart + 1
        startDot == LastIndex(x, first, end, ".")
        preDotState == IF startDot = 0 \/ startDot = first THEN 0
                       ELSE IF x[first] = "." THEN 1 ELSE 0 - 1
    IN  IF \/ startDot = 0
           \/ end = 0
           \/ preDotState = 0
           \/ preDotState = 1 /\ startDot = end /\ startDot = startPart + 2
        THEN <<>>
        ELSE SubSeq(x, startDot, end)

\* path.basename: the characters between the last separator that is followed
\* by another character and the last character that is no separator; a
\* suffix that is not empty and not longer than the path is matched from the
\* end of these: matched whole it is cut off unless nothing would be left,
\* matched in part (end stays -1) the result runs to the end of the path
path_basename(x, suffix) ==
    LET end == LastNonSlash(x)
        start == LastIndex(x, 1, end, "/")
        base == SubSeq(x, start + 1, end)
        n == Len(base)
        m == Len(suffix)
    IN  IF m > 0 /\ m <= Len(x)
        THEN IF suffix = x THEN <<>>
             ELSE IF end = 0 THEN x
             ELSE IF n >= m /\ SubSeq(base, n - m + 1, n) = suffix
             THEN IF n = m THEN base ELSE SubSeq(base, 1, n - m)
             ELSE IF n < m /\ base = SubSeq(suffix, m - n + 1, m)
             THEN SubSeq(x, start + 1, Len(x))
             ELSE base
        ELSE base

\* what a path primitive called with args in the working directory wd
\* returns or throws
PathSettlement(prim, args, wd) ==
    CASE prim[2] \in {"normalize", "parse", "isAbsolute"} ->
           IF Len(args) >= 1 /\ IsString(args[1])
           THEN Resolved(CASE prim[2] = "normalize" -> path_normalize(args[1])
                           [] prim[2] = "parse" -> path_parse(args[1])
                           [] prim[2] = "isAbsolute" -> path_isAbsolute(args[1]))
           ELSE Rejected(TypeError)
      [] prim[2] = "join" ->
           IF \A i \in 1..Len(args) : IsString(args[i])
           THEN Resolved(path_join(args))
           ELSE Rejected(TypeError)
      [] prim[2] = "resolve" ->
           IF \E i \in 1..Len(args) :
                 /\ ~IsString(args[i])
                 /\ \A j \in (i + 1)..Len(args) :
                       ~(IsString(args[j]) /\ path_isAbsolute(args[j]))
           THEN Rejected(TypeError)
           ELSE Resolved(path_resolve(args, wd))
      [] prim[2] = "relative" ->
           IF Len(args) >= 2 /\ IsString(args[1]) /\ IsString(args[2])
           THEN Resolved(path_relative(args[1], args[2], wd))
           ELSE Rejected(TypeError)
      [] prim[2] = "format" ->
           IF Len(args) >= 1
           THEN Resolved(path_format(args[1]))
           ELSE Rejected(TypeError)
      [] prim[2] = "extname" ->
           IF Len(args) >= 1 /\ IsString(args[1])
           THEN Resolved(path_extname(args[1]))
           ELSE Rejected(TypeError)
      [] prim[2] = "basename" ->
           IF Len(args) >= 1 /\ \A i \in 1..Len(args) : IsString(args[i])
           THEN Resolved(path_basename(args[1], IF Len(args) >= 2 THEN args[2] ELSE <<>>))
           ELSE Rejected(TypeError)

\* the working directories of the process
Cwds == {RootDir, <<"/", "a">>}

PathTasks ==
    { [module |-> "path", op |-> op, args |-> <<x>>] :
          op \in {"normalize", "parse", "isAbsolute", "extname", "basename"},
          x \in Strs(MaxLen) \cup {NotAString} }
      \cup { [module |-> "path", op |-> "basename", args |-> <<x, ext>>] :
                x \in Strs(MaxLen),
                ext \in Strs(MaxArgLen) \cup {NotAString} }
      \cup { [module |-> "path", op |-> op, args |-> xs] :
                op \in {"join", "resolve"},
                xs \in UNION { [1..k -> Strs(MaxArgLen)] : k \in 0..2 } }
      \cup { [module |-> "path", op |-> "relative", args |-> <<x, y>>] :
                x \in Strs(MaxArgLen), y \in Strs(MaxArgLen) }

InitPath ==
    /\ version = "path_ts"
    /\ granted = "RW"
    /\ task = NoTask
    /\ runs = <<>>
    /\ calls = <<>>
    /\ cwd = RootDir
    /\ handles = InitialHandles
    /\ dirs = {}

CreatePath ==
    /\ task = NoTask
    /\ \E t \in PathTasks :
         /\ task' = t
         /\ calls' = CallsOnCreate(calls, t)
    /\ UNCHANGED <<version, granted, runs, env>>

\* the path objects path.parse yields, on paths one character longer than
\* those passed to it directly
ValidStructs == { path_parse(x) : x \in Strs(MaxLen + 1) }

\* path objects a caller puts together
Structs ==
    [root : {<<>>, Slash}, dir : {<<>>, Slash, <<"a">>}, base : {<<>>, <<"a">>},
     name : {<<>>, <<"a">>}, ext : {<<>>, <<".", "a">>}]

CreateFormat ==
    /\ task = NoTask
    /\ \E po \in Structs \cup ValidStructs :
         LET t == [module |-> "path", op |-> "format", args |-> <<po>>]
         IN  /\ task' = t
             /\ calls' = CallsOnCreate(calls, t)
    /\ UNCHANGED <<version, granted, runs, env>>

\* the caller, having run format, calls it again with another root, or with
\* another name and ext
FormatVariant ==
    /\ task.op = "format"
    /\ 0 < Len(runs) /\ Len(runs) < MaxRuns
    /\ runs[Len(runs)].of = task
    /\ \E po \in { [task.args[1] EXCEPT !.root = x] : x \in {<<>>, Slash} }
                  \cup { [task.args[1] EXCEPT !.name = x, !.ext = y] :
                            x \in {<<>>, <<"a">>}, y \in {<<>>, <<".", "a">>} } :
         LET t == [module |-> "path", op |-> "format", args |-> <<po>>]
         IN  /\ po # task.args[1]
             /\ task' = t
             /\ calls' = CallsOnCreate(calls, t)
    /\ UNCHANGED <<version, granted, runs, env>>

\* the caller passes what a run of format yielded to parse
ParseFormatted ==
    /\ task.op = "format"
    /\ Len(runs) < MaxRuns
    /\ \E i \in 1..Len(runs) :
         /\ runs[i].pc = "done"
         /\ runs[i].of.op = "format"
         /\ runs[i].out.tag = "right"
         /\ LET t == [module |-> "path", op |-> "parse", args |-> <<runs[i].out.value>>]
            IN  /\ task' = t
                /\ calls' = CallsOnCreate(calls, t)
    /\ UNCHANGED <<version, granted, runs, env>>

\* the caller passes what a run of parse yielded to format
FormatParsed ==
    /\ task.op = "parse"
    /\ Len(runs) < MaxRuns
    /\ \E i \in 1..Len(runs) :
         /\ runs[i].pc = "done"
         /\ runs[i].of.op = "parse"
         /\ runs[i].out.tag = "right"
         /\ LET t == [module |-> "path", op |-> "format", args |-> <<runs[i].out.value>>]
            IN  /\ task' = t
                /\ calls' = CallsOnCreate(calls, t)
    /\ UNCHANGED <<version, granted, runs, env>>

\* the caller runs an IOEither: the primitive acts on the arguments the lazy
\* argument of tryCatch passes and on the working directory of the process
RunPath ==
    /\ task.module = "path"
    /\ Len(runs) < MaxRuns
    /\ LET log == InvokePrimitive(calls, task, Len(runs) + 1)
           s == PathSettlement(log[Len(log)].prim, log[Len(log)].args, cwd)
       IN  /\ calls' = log
           /\ runs' = Append(runs, [pc |-> "done", of |-> task, cwd |-> cwd, settle |-> s,
                                    out |-> Outcome(version, task, s)])
    /\ UNCHANGED <<version, granted, task, env>>

\* process.chdir
Chdir ==
    /\ \E d \in Cwds \ {cwd} : cwd' = d
    /\ UNCHANGED <<version, granted, task, runs, calls, handles, dirs>>

NextPath ==
    \/ CreatePath
    \/ CreateFormat
    \/ FormatVariant
    \/ ParseFormatted
    \/ FormatParsed
    \/ RunPath
    \/ Chdir
    \/ Drop

SpecPath == InitPath /\ [][NextPath]_vars

-----------------------------------------------------------------------------
(* Properties *)

RunIds == 1..Len(runs)

Ended(i) == runs[i].pc = "done"

Succeeded(i) == Ended(i) /\ runs[i].settle.kind = "resolved"

Failed(i) == Ended(i) /\ runs[i].settle.kind = "rejected"

\* C1: whenever the primitive raises an Error (the shape toError recognises),
\* the outcome is a left whose payload is that very object: same reference,
\* same code, same message.
C1_StructuredFaultPassesThrough ==
    \A i \in RunIds :
        (Failed(i) /\ runs[i].settle.reason.isError)
            => runs[i].out = Left(runs[i].settle.reason)

C1_Witness ==
    \E i \in RunIds :
        /\ Failed(i)
        /\ runs[i].settle.reason.ref = "e1"
        /\ runs[i].out.tag = "left"
        /\ runs[i].out.error.ref = "e1"

\* C2: whenever the primitive raises a value that is no Error, the outcome is
\* a left carrying a fresh Error whose message is the default message of the
\* operation, whatever was raised.
C2_NonStructuredFaultGetsDefaultMessage ==
    \A i \in RunIds :
        (Failed(i) /\ ~runs[i].settle.reason.isError)
            => /\ runs[i].out.tag = "left"
               /\ runs[i].out.error.isError
               /\ runs[i].out.error.ref = "new"
               /\ runs[i].out.error.message = DefaultMessage(version, task.module, task.op)

C2_Witness ==
    \E i \in RunIds :
        /\ Failed(i)
        /\ runs[i].settle.reason.ref = "x1"
        /\ task.op = "access"
        /\ runs[i].out.tag = "left"
        /\ runs[i].out.error.message = "Unexpected error while accessing path"

\* the operations C3 names as yielding the primitive's own result
C3_NaturalOps ==
    {"stat", "lstat", "readdir", "opendir", "readFile", "readLink", "realpath",
     "mkdtemp", "open"}

C3_Echo(i) == task.module = "fs" /\ runs[i].out.value = task.args[EchoPosition(task.op)]

\* C3 as stated: whenever the primitive returns, the outcome is a right that
\* carries the returned value, or the echoed input when the primitive
\* returned nothing; the named operations carry the returned value.
C3_Original ==
    \A i \in RunIds :
        Succeeded(i)
            => /\ runs[i].out.tag = "right"
               /\ \/ runs[i].out.value = runs[i].settle.value
                  \/ runs[i].settle.value = Undefined /\ C3_Echo(i)
               /\ (task.module = "fs" /\ task.op \in C3_NaturalOps)
                      => runs[i].out.value = runs[i].settle.value

\* C3 as amended: whenever the primitive returns, the outcome is a right that
\* carries the returned value, or the echoed input when the primitive
\* returned nothing or the operation is mkdir (whose wrapper echoes the path
\* also when the primitive returns the first directory it created); the
\* named operations carry the returned value.
C3_SuccessCarriesValueOrEcho ==
    \A i \in RunIds :
        Succeeded(i)
            => /\ runs[i].out.tag = "right"
               /\ \/ runs[i].out.value = runs[i].settle.value
                  \/ /\ runs[i].settle.value = Undefined \/ task.op = "mkdir"
                     /\ C3_Echo(i)
               /\ (task.module = "fs" /\ task.op \in C3_NaturalOps)
                      => runs[i].out.value = runs[i].settle.value

C3_Witness ==
    \E i \in RunIds :
        /\ Succeeded(i)
        /\ task.op = "mkdir"
        /\ task.args[2] = "recursive"
        /\ runs[i].settle.value = "b"
        /\ runs[i].out = Right("a")

\* C4: every run of a computation has exactly one call of the primitive in
\* the log, before and after it ends and whether it succeeds or fails; the
\* calls are logged in the order the runs were started.
C4_OneCallPerRun ==
    /\ Len(calls) = Len(runs)
    /\ \A i \in RunIds :
          /\ Cardinality({k \in 1..Len(calls) : calls[k].run = i}) = 1
          /\ calls[i].run = i
          /\ calls[i].prim = Primitive(task.module, task.op)

C4_Witness ==
    /\ Len(runs) = 2
    /\ Failed(1)
    /\ Succeeded(2)
    /\ Len(calls) = 2

\* C5: a run of rename or symlink that succeeds yields the path argument
\* (newPath of rename, path of symlink: the second argument).
C5_RenameSymlinkEcho ==
    \A i \in RunIds :
        (Succeeded(i) /\ task.op \in {"rename", "symlink"})
            => runs[i].out = Right(task.args[2])

\* C6: a run of writeFile or appendFile that succeeds yields the path or
\* FileHandle given as first argument, and a run of readFile that succeeds
\* yields the contents the primitive returned.
C6_WriteAppendEchoReadContents ==
    \A i \in RunIds :
        /\ (Succeeded(i) /\ task.op \in {"writeFile", "appendFile"})
              => runs[i].out = Right(task.args[1])
        /\ (Succeeded(i) /\ task.op = "readFile")
              => runs[i].out = Right(runs[i].settle.value)

\* C7: a run of utimes, lutimes or truncate that succeeds yields the path
\* argument.
C7_TimesTruncateEcho ==
    \A i \in RunIds :
        (Succeeded(i) /\ task.op \in {"utimes", "lutimes", "truncate"})
            => runs[i].out = Right(task.args[1])

C10_RemovalsYieldNothing ==
    \A i \in RunIds :
        (Succeeded(i) /\ task.op \in {"rm", "rmdir", "unlink"})
            => /\ runs[i].out = Right(Undefined)
               /\ runs[i].out.value # task.args[1]

C10_Witness ==
    \E i \in RunIds :
        /\ Succeeded(i)
        /\ task.op = "unlink"
        /\ runs[i].out = Right(Undefined)

\* C11: a run whose primitive raised has no outcome until it ends and then
\* exactly the outcome of its own record, tagged left and carrying an Error:
\* never a right, and never anything that is not an Either.
C11_RaiseEndsInLeft ==
    \A i \in RunIds :
        runs[i].settle.kind = "rejected"
            => IF Ended(i)
               THEN runs[i].out.tag = "left" /\ runs[i].out.error.isError
               ELSE runs[i].out = NoOutcome

C11_Witness ==
    \E i \in RunIds :
        /\ Failed(i)
        /\ runs[i].of.op = "mkdir"
        /\ runs[i].settle.reason.ref = "x1"
        /\ runs[i].out.tag = "left"

\* C12: every call in the log carries the primitive of the operation that was
\* run and exactly the argument list the exported function received: same
\* length, same values, same positions.
C12_ArgumentsForwarded ==
    \A k \in 1..Len(calls) :
        /\ calls[k].run \in RunIds
        /\ calls[k].prim = Primitive(runs[calls[k].run].of.module, runs[calls[k].run].of.op)
        /\ calls[k].args = runs[calls[k].run].of.args

C12_Witness ==
    \E k \in 1..Len(calls) :
        /\ calls[k].prim = <<"fsPromises", "symlink">>
        /\ calls[k].args = <<"a", "b", "x3">>
        /\ task.args = <<"a", "b", "x3">>

\* C16: as long as the computation an exported function returned has not been
\* run, the log holds no call of a primitive.
C16_NoCallBeforeRun ==
    runs = <<>> => calls = <<>>

C16_Witness ==
    /\ task.op \in {"rm", "dirname"}
    /\ runs = <<>>
    /\ calls = <<>>

\* C15: whatever is pending, another exported function can be called and,
\* within the bound on runs, what it returned can be started; every pending
\* call can settle and every settled run can deliver whatever the state of
\* the other runs, so overlapping runs end in either order.
C15_NoBlockingNoOrdering ==
    /\ ENABLED CreateConc
    /\ (task # NoTask /\ Len(runs) < MaxRuns) => ENABLED StartTask
    /\ \A i \in RunIds :
          /\ runs[i].pc = "pending" => ENABLED Settle(i)
          /\ runs[i].pc = "settled" => ENABLED Deliver(i)

C15_Witness ==
    /\ Len(runs) = 2
    /\ runs[1].of.op = "rename"
    /\ runs[2].of.op = "writeFile"
    /\ runs[1].pc = "pending"
    /\ runs[2].pc = "done"

\* C14: every FileHandle the caller passed in or open made is open unless the
\* caller closed it, whatever open, readFile, writeFile and appendFile runs
\* took place; a successful open yields the handle its own call made, and no
\* two successful runs of open yield the same handle.
C14_HandlesLeftToCaller ==
    /\ handles.open = AllHandles \ handles.closed
    /\ \A k \in 1..Len(calls) : calls[k].prim # <<"filehandle", "close">>
    /\ \A i \in RunIds :
          (Succeeded(i) /\ runs[i].of.op = "open")
              => /\ runs[i].out = Right(runs[i].settle.value)
                 /\ runs[i].out.value \in AllHandles \ {FileHandle}
                 /\ \A j \in RunIds \ {i} :
                       (Succeeded(j) /\ runs[j].of.op = "open")
                           => runs[j].out.value # runs[i].out.value

C14_Witness ==
    /\ Len(runs) = 2
    /\ Succeeded(1)
    /\ Failed(2)
    /\ runs[1].of.op = "appendFile"
    /\ runs[1].of.args[1] = FileHandle
    /\ FileHandle \in handles.open
    /\ handles.made = 2
    /\ NewHandle(1) \in handles.closed
    /\ NewHandle(2) \in handles.open

\* C17: a run of mkdir whose primitive found the path to be a directory that
\* exists ends in a left when recursive is not set and in a right when it is,
\* and the primitive left the directories as they were.
C17_MkdirOnExistingDirectory ==
    \A i \in RunIds :
        (Ended(i) /\ runs[i].of.op = "mkdir" /\ runs[i].of.args[1] \in runs[i].settle.pre)
            => /\ runs[i].of.args[2] = "plain" => runs[i].out.tag = "left"
               /\ runs[i].of.args[2] = "recursive" => runs[i].out.tag = "right"
               /\ runs[i].settle.post = runs[i].settle.pre

C17_Witness ==
    /\ Len(runs) = 2
    /\ runs[1].of = [module |-> "fs", op |-> "mkdir", args |-> <<"a", "plain">>]
    /\ Succeeded(1)
    /\ "a" \notin runs[1].settle.pre
    /\ Ended(2)
    /\ "a" \in runs[2].settle.pre
    /\ runs[2].out.tag = "left"
    /\ runs[2].out.error.code = "EEXIST"

\* C13 as stated: two runs of a path operation with equal arguments end in
\* equal outcomes, whatever happened between them.
C13_Original ==
    \A i, j \in RunIds :
        (/\ Ended(i) /\ Ended(j)
         /\ runs[i].of.module = "path"
         /\ runs[i].of.op = runs[j].of.op
         /\ runs[i].of.args = runs[j].of.args)
            => runs[i].out = runs[j].out

\* C13: two runs of a path operation with equal arguments end in equal
\* outcomes when the operation is neither resolve nor relative, and two runs
\* of resolve or of relative with equal arguments end in equal outcomes when
\* the working directory of the process was the same at both.
C13_ArgumentsAndCwdDetermineOutcome ==
    \A i, j \in RunIds :
        (/\ Ended(i) /\ Ended(j)
         /\ runs[i].of.module = "path"
         /\ runs[i].of.op = runs[j].of.op
         /\ runs[i].of.args = runs[j].of.args
         /\ runs[i].of.op \in {"resolve", "relative"} => runs[i].cwd = runs[j].cwd)
            => runs[i].out = runs[j].out

C13_Witness ==
    /\ Len(runs) = 2
    /\ Ended(1) /\ Ended(2)
    /\ runs[1].of.op = "normalize"
    /\ runs[1].of.args = << <<"a", "/", ".">> >>
    /\ runs[2].of = runs[1].of
    /\ runs[1].cwd # runs[2].cwd
    /\ runs[1].out = runs[2].out

\* C18: a run of normalize on the empty string ends in right("."), and so
\* does a run of join on no segments or on segments that are all empty.
C18_EmptyNormalizesToDot ==
    \A i \in RunIds :
        /\ (/\ Ended(i)
            /\ runs[i].of.op = "normalize"
            /\ runs[i].of.args = << <<>> >>) => runs[i].out = Right(Dot)
        /\ (/\ Ended(i)
            /\ runs[i].of.op = "join"
            /\ \A k \in 1..Len(runs[i].of.args) : runs[i].of.args[k] = <<>>)
               => runs[i].out = Right(Dot)

C18_Witness ==
    /\ Len(runs) = 2
    /\ Ended(2)
    /\ runs[2].of.op = "join"
    /\ runs[2].of.args = << <<>>, <<>> >>
    /\ runs[2].out = Right(Dot)

\* C19: a run of relative(a, b) ends in right("") whenever a and b resolve to
\* the same path in the working directory of the run; relative(p, p) is the
\* case a = b.
C19_RelativeOfSameIsEmpty ==
    \A i \in RunIds :
        (/\ Ended(i)
         /\ runs[i].of.op = "relative"
         /\ path_resolve(<<runs[i].of.args[1]>>, runs[i].cwd)
               = path_resolve(<<runs[i].of.args[2]>>, runs[i].cwd))
            => runs[i].out = Right(<<>>)

C19_Witness ==
    \E i \in RunIds :
        /\ Ended(i)
        /\ runs[i].of.op = "relative"
        /\ runs[i].of.args = << <<>>, <<"/", "a">> >>
        /\ runs[i].cwd = <<"/", "a">>
        /\ runs[i].out = Right(<<>>)

Equivalent(x, y) == path_normalize(x) = path_normalize(y)

NoTrailingSeparator(x) == Len(x) = 0 \/ x[Len(x)] # "/"

\* C20: for every path p with no trailing separator, with or without '.' and
\* '..' segments, a run of parse on p ends in a right, and a run of format on
\* the payload of that right ends in a right whose path normalizes to what p
\* normalizes to.
C20_ParseThenFormat ==
    \A i \in RunIds :
        (/\ Ended(i)
         /\ runs[i].of.op = "parse"
         /\ IsString(runs[i].of.args[1])
         /\ NoTrailingSeparator(runs[i].of.args[1]))
            => /\ runs[i].out.tag = "right"
               /\ \A j \in RunIds :
                     (/\ Ended(j)
                      /\ runs[j].of.op = "format"
                      /\ runs[j].of.args[1] = runs[i].out.value)
                         => /\ runs[j].out.tag = "right"
                            /\ Equivalent(runs[j].out.value, runs[i].of.args[1])

C20_Witness ==
    /\ Len(runs) = 2
    /\ Ended(1) /\ Ended(2)
    /\ runs[1].of.op = "parse"
    /\ runs[1].of.args = << <<"a", "/", "a">> >>
    /\ runs[2].of.op = "format"
    /\ runs[2].of.args = <<runs[1].out.value>>
    /\ runs[2].out = Right(<<"a", "/", "a">>)

\* C25: a run whose primitive has not settled has no outcome, an ended run
\* has a settled primitive and keeps the one outcome it was given, and a run
\* whose primitive has settled is eventually given its outcome.
C25_SuspendedUntilSettled ==
    /\ [](\A i \in RunIds :
             /\ runs[i].pc \in {"pending", "settled"} => runs[i].out = NoOutcome
             /\ runs[i].pc = "pending" <=> runs[i].settle = Pending
             /\ runs[i].pc = "done" => runs[i].out # NoOutcome)
    /\ [][\A i \in RunIds :
             (runs[i].pc = "done" /\ i <= Len(runs')) => runs'[i] = runs[i]]_vars
    /\ \A i \in 1..MaxRuns :
          (i <= Len(runs) /\ runs[i].pc = "settled")
              ~> (i <= Len(runs) /\ runs[i].pc = "done")

C25_Witness ==
    /\ Len(runs) = 2
    /\ runs[1].of.op = "access"
    /\ runs[1].pc = "settled"
    /\ runs[1].settle = Resolved(Undefined)
    /\ runs[1].out = NoOutcome
    /\ runs[2].of.op = "lutimes"
    /\ runs[2].pc = "done"
    /\ runs[2].out = Right("b")

C27_EmptyMessageOps ==
    {"lstat", "mkdir", "mkdtemp", "open", "opendir", "readdir", "readFile",
     "readLink", "realpath", "rename", "rmdir", "rm", "stat", "symlink",
     "truncate", "unlink", "utimes", "writeFile"}

C27_NamedMessageOps ==
    {"access", "appendFile", "chmod", "chown", "copyFile", "cp", "lchown",
     "lutimes", "link"}

\* C27: a run of a filesystem operation whose primitive raised a value that
\* is no Error ends in a left with a new Error whose message is empty for the
\* eighteen operations named first, and non-empty and used by no other
\* operation for the nine named second.
C27_EmptyAndNamedDefaultMessages ==
    \A i \in RunIds :
        (Failed(i) /\ runs[i].of.module = "fs" /\ ~runs[i].settle.reason.isError)
            => /\ runs[i].out.tag = "left"
               /\ runs[i].out.error.isError
               /\ runs[i].out.error.ref = "new"
               /\ runs[i].of.op \in C27_EmptyMessageOps
                     => runs[i].out.error.message = ""
               /\ runs[i].of.op \in C27_NamedMessageOps
                     => /\ runs[i].out.error.message # ""
                        /\ \A op \in FsOps \ {runs[i].of.op} :
                              FsDefaultMessage(version, op) # runs[i].out.error.message

C27_Witness ==
    /\ Len(runs) = 2
    /\ Failed(1) /\ Failed(2)
    /\ runs[1].of.op = "lstat"
    /\ runs[1].settle.reason.ref = "x1"
    /\ runs[1].out.error.message = ""
    /\ runs[2].settle.reason.ref = "x2"
    /\ runs[2].out.error.message = ""

\* C26: n runs of the computation one call returned make n calls of the
\* primitive, the k-th call made by the k-th run, and every ended run carries
\* what its own call did: a right exactly when its own call returned (with the
\* value returned, for readFile and stat), a left exactly when its own call
\* raised (with the Error raised, when it is one).
C26_EveryRunItsOwnCall ==
    /\ Len(calls) = Len(runs)
    /\ \A i \in RunIds :
          /\ calls[i].run = i
          /\ Ended(i) =>
                /\ runs[i].settle.kind = "resolved" <=> runs[i].out.tag = "right"
                /\ runs[i].settle.kind = "rejected" <=> runs[i].out.tag = "left"
                /\ (Succeeded(i) /\ runs[i].of.op \in {"readFile", "stat"})
                      => runs[i].out.value = runs[i].settle.value
                /\ (Failed(i) /\ runs[i].settle.reason.isError)
                      => runs[i].out.error = runs[i].settle.reason

C26_Witness ==
    /\ Len(runs) = 2
    /\ runs[1].of.op = "stat"
    /\ runs[1].of = runs[2].of
    /\ Failed(1)
    /\ runs[1].out.error.code = "ENOENT"
    /\ Succeeded(2)
    /\ runs[2].out = Right("v2")
    /\ Len(calls) = 2

C28_Pairs == { i \in RunIds : i % 2 = 1 /\ i + 1 \in RunIds }

C21_Reparsed(i, j) ==
    /\ runs[j].out.tag = "right"
    /\ runs[j].out.value.root = runs[i].of.args[1].root
    /\ runs[j].out.value.dir = runs[i].of.args[1].dir
    /\ runs[j].out.value.base = runs[i].of.args[1].base
    /\ runs[j].out.value.name = runs[i].of.args[1].name
    /\ runs[j].out.value.ext = runs[i].of.args[1].ext

C22_FormatPairs ==
    { ij \in RunIds \X RunIds :
        /\ Ended(ij[1]) /\ Ended(ij[2])
        /\ runs[ij[1]].of.op = "format"
        /\ runs[ij[2]].of.op = "format" }

FinalSegment(x) ==
    LET segs == SelectSeq(Split(x), NonEmpty)
    IN  IF segs = <<>> THEN <<>> ELSE segs[Len(segs)]

EndsWith(x, y) == Len(y) <= Len(x) /\ SubSeq(x, Len(x) - Len(y) + 1, Len(x)) = y

C24_FromLastDot(seg) ==
    LET d == LastIndex(seg, 1, Len(seg), ".")
    IN  IF d <= 1 THEN <<>> ELSE SubSeq(seg, d, Len(seg))

C23_Ext(i) == IF Len(runs[i].of.args) >= 2 THEN runs[i].of.args[2] ELSE <<>>

C23_AllStrings(i) == \A k \in 1..Len(runs[i].of.args) : IsString(runs[i].of.args[k])

====
